---- MODULE Spec2Model ----
(***************************************************************************)
(* Model of translate.py: the in-place enrichment of text columns with    *)
(* machine-translated companion columns `<col>_en`.                       *)
(*                                                                         *)
(* Strings (column names, cell values, translations) are sequences of     *)
(* Unicode code points, so that the regular expressions and the string    *)
(* tests of the classifier are computed the way the code computes them.   *)
(***************************************************************************)
EXTENDS Integers, Sequences, FiniteSets, TLC

\* ------------------------------------------------------------------------
\* Bounds of the model
\* ------------------------------------------------------------------------
MaxRows == 1        \* largest number of rows of table "article"
MaxRuns == 2        \* number of consecutive runs of the program

\* ------------------------------------------------------------------------
\* Values of a cell: SQL NULL (Python None), a str, or bytes
\* ------------------------------------------------------------------------
None == [k |-> "none"]
Str(s) == [k |-> "str", s |-> s]
Bytes(b) == [k |-> "bytes", b |-> b]
\* a JSON value that is not a string (e.g. null or a number in "text")
NonStr == [k |-> "other"]

IsStr(v) == v.k = "str"

\* Python truthiness of a cell value (r.get(...) used as a condition)
Truthy(v) ==
    CASE v.k = "none"  -> FALSE
      [] v.k = "str"   -> v.s # <<>>
      [] v.k = "bytes" -> v.b # <<>>
      [] OTHER         -> TRUE

\* ------------------------------------------------------------------------
\* String helpers (str.strip, str.startswith, str.lower, `in`)
\* ------------------------------------------------------------------------
\* characters for which str.isspace() holds (also what \s matches)
IsSpace(c) ==
    \/ c \in 9..13
    \/ c \in 28..32
    \/ c \in {133, 160, 5760, 8232, 8233, 8239, 8287, 12288}
    \/ c \in 8192..8202

\* characters matched by \d: ASCII digits and the full-width digits
IsDigit(c) == c \in 48..57 \/ c \in 65296..65305

RECURSIVE LStrip(_)
LStrip(s) == IF s # <<>> /\ IsSpace(Head(s)) THEN LStrip(Tail(s)) ELSE s

RECURSIVE RStrip(_)
RStrip(s) ==
    IF s # <<>> /\ IsSpace(s[Len(s)]) THEN RStrip(SubSeq(s, 1, Len(s) - 1)) ELSE s

Strip(s) == RStrip(LStrip(s))

StartsWith(s, p) == Len(s) >= Len(p) /\ SubSeq(s, 1, Len(p)) = p

EndsWith(s, p) == Len(s) >= Len(p) /\ SubSeq(s, Len(s) - Len(p) + 1, Len(s)) = p

Contains(s, p) ==
    \E i \in 1..(Len(s) - Len(p) + 1) : SubSeq(s, i, i + Len(p) - 1) = p

\* str.lower() on the characters column names are made of
LowerChar(c) == IF c \in 65..90 THEN c + 32 ELSE c
Lower(s) == [i \in 1..Len(s) |-> LowerChar(s[i])]

\* case folding of re.I for the letters of URL_RE (h, t, p, s, f):
\* upper case, and U+017F (long s) which folds to s
FoldChar(c) == IF c \in 65..90 THEN c + 32 ELSE IF c = 383 THEN 115 ELSE c
Fold(s) == [i \in 1..Len(s) |-> FoldChar(s[i])]

\* ------------------------------------------------------------------------
\* Rules and detection (translate.py 58-100)
\* ------------------------------------------------------------------------
\* CN_RE = [U+3400-U+9FFF, U+F900-U+FAFF]
CN_RE(c) == c \in 13312..40959 \/ c \in 63744..64255

\* URL_RE = ^(?:https?|ftp):// with re.I, used with .match
URL_RE(t) ==
    \/ StartsWith(Fold(t), <<104, 116, 116, 112, 58, 47, 47>>)        \* http://
    \/ StartsWith(Fold(t), <<104, 116, 116, 112, 115, 58, 47, 47>>)   \* https://
    \/ StartsWith(Fold(t), <<102, 116, 112, 58, 47, 47>>)             \* ftp://

\* [^@\s]
NotAtSpace(c) == c # 64 /\ ~IsSpace(c)

\* ^[^@\s]+@[^@\s]+\.[^@\s]+ matched against the whole of u
EmailWhole(u) ==
    \E i \in 2..Len(u) :
        /\ u[i] = 64
        /\ \A j \in 1..Len(u) : j # i => NotAtSpace(u[j])
        /\ \E d \in (i + 2)..(Len(u) - 1) : u[d] = 46

\* EMAIL_RE.match(t): `$` matches at the end and before a final newline
EMAIL_RE(t) ==
    \/ EmailWhole(t)
    \/ t # <<>> /\ t[Len(t)] = 10 /\ EmailWhole(SubSeq(t, 1, Len(t) - 1))

\* [\d\.\-]
NumChar(c) == IsDigit(c) \/ c = 46 \/ c = 45

\* IS_NUMERIC_RE = ^\s*[\d\.\-]+\s*$
IS_NUMERIC_RE(t) ==
    \E a \in 1..Len(t) : \E b \in a..Len(t) :
        /\ \A j \in 1..(a - 1) : IsSpace(t[j])
        /\ \A j \in a..b : NumChar(t[j])
        /\ \A j \in (b + 1)..Len(t) : IsSpace(t[j])

\* prefixes of line 92
StructuralPrefixes ==
    { <<123>>,                                          \* {
      <<91>>,                                           \* [
      <<60>>,                                           \* <
      <<60, 63, 120, 109, 108>>,                        \* <?xml
      <<102, 117, 110, 99, 116, 105, 111, 110>>,        \* function
      <<99, 108, 97, 115, 115>>,                        \* class
      <<105, 109, 112, 111, 114, 116, 32>>,             \* import_
      <<112, 97, 99, 107, 97, 103, 101, 32>> }          \* package_

SKIP_COL_KEYWORDS ==
    { <<112, 97, 115, 115, 119, 111, 114, 100>>,  \* password
      <<112, 119, 100>>,  \* pwd
      <<115, 97, 108, 116>>,  \* salt
      <<116, 111, 107, 101, 110>>,  \* token
      <<115, 105, 103, 110>>,  \* sign
      <<115, 105, 103, 110, 97, 116, 117, 114, 101>>,  \* signature
      <<115, 105, 103>>,  \* sig
      <<101, 109, 97, 105, 108>>,  \* email
      <<109, 97, 105, 108>>,  \* mail
      <<117, 114, 108>>,  \* url
      <<117, 114, 105>>,  \* uri
      <<108, 105, 110, 107>>,  \* link
      <<97, 118, 97, 116, 97, 114>>,  \* avatar
      <<105, 109, 97, 103, 101>>,  \* image
      <<105, 99, 111, 110>>,  \* icon
      <<112, 104, 111, 110, 101>>,  \* phone
      <<109, 111, 98, 105, 108, 101>>,  \* mobile
      <<116, 101, 108>>,  \* tel
      <<105, 100, 99, 97, 114, 100>>,  \* idcard
      <<105, 100, 95, 99, 97, 114, 100>>,  \* id_card
      <<105, 100, 95, 110, 111>>,  \* id_no
      <<105, 100, 110, 117, 109, 98, 101, 114>>,  \* idnumber
      <<111, 112, 101, 110, 105, 100>>,  \* openid
      <<117, 110, 105, 111, 110, 105, 100>>,  \* unionid
      <<115, 101, 115, 115, 105, 111, 110, 95, 107, 101, 121>>,  \* session_key
      <<105, 112>>,  \* ip
      <<117, 97>>,  \* ua
      <<117, 115, 101, 114, 97, 103, 101, 110, 116>>,  \* useragent
      <<117, 115, 101, 114, 95, 97, 103, 101, 110, 116>>,  \* user_agent
      <<104, 97, 115, 104>>,  \* hash
      <<99, 104, 101, 99, 107, 115, 117, 109>> }  \* checksum

SKIP_TABLES == {}
ONLY_TABLES == {}
TEXT_TYPES == {"char", "varchar", "tinytext", "text", "mediumtext", "longtext"}

\* the companion suffix "_en"
EnSuffix == <<95, 101, 110>>
EnName(col) == col \o EnSuffix

contains_chinese(v) == IsStr(v) /\ \E i \in 1..Len(v.s) : CN_RE(v.s[i])

\* looks_like_non_language_value without the URL test
looks_like_non_language_value_NoUrl(v) ==
    IF ~IsStr(v) THEN TRUE
    ELSE LET t == Strip(v.s) IN
         IF t = <<>> \/ Len(t) <= 1 THEN TRUE
         ELSE IF EMAIL_RE(t) \/ IS_NUMERIC_RE(t) THEN TRUE
         ELSE IF \E p \in StructuralPrefixes : StartsWith(t, p) THEN TRUE
         ELSE FALSE

looks_like_non_language_value(v) ==
    IF ~IsStr(v) THEN TRUE
    ELSE LET t == Strip(v.s) IN
         IF t = <<>> \/ Len(t) <= 1 THEN TRUE
         ELSE IF URL_RE(t) \/ EMAIL_RE(t) \/ IS_NUMERIC_RE(t) THEN TRUE
         ELSE IF \E p \in StructuralPrefixes : StartsWith(t, p) THEN TRUE
         ELSE FALSE

\* should_translate_col comparing the name as it is written
should_translate_col_NoLower(col_name) ==
    LET n == col_name IN
    IF EndsWith(n, EnSuffix) THEN FALSE
    ELSE ~(\E k \in SKIP_COL_KEYWORDS : Contains(n, k))

\* lines 96-100
should_translate_col(col_name) ==
    LET n == Lower(col_name) IN
    IF EndsWith(n, EnSuffix) THEN FALSE
    ELSE ~(\E k \in SKIP_COL_KEYWORDS : Contains(n, k))


\* ------------------------------------------------------------------------
\* bytes.decode("utf-8", errors="ignore") (translate.py 253-257)
\* ------------------------------------------------------------------------
IsCont(b) == b \in 128..191

RECURSIVE Utf8Decode(_)
Utf8Decode(b) ==
    IF b = <<>> THEN <<>>
    ELSE LET b1 == b[1]
             n  == Len(b)
         IN
         IF b1 < 128 THEN <<b1>> \o Utf8Decode(Tail(b))
         ELSE IF b1 \in 194..223 /\ n >= 2 /\ IsCont(b[2])
              THEN <<(b1 - 192) * 64 + (b[2] - 128)>> \o Utf8Decode(SubSeq(b, 3, n))
         ELSE IF /\ b1 \in 224..239 /\ n >= 3
                 /\ IsCont(b[2]) /\ IsCont(b[3])
                 /\ (b1 = 224 => b[2] >= 160)
                 /\ (b1 = 237 => b[2] <= 159)
              THEN <<(b1 - 224) * 4096 + (b[2] - 128) * 64 + (b[3] - 128)>>
                       \o Utf8Decode(SubSeq(b, 4, n))
         ELSE IF /\ b1 \in 240..244 /\ n >= 4
                 /\ IsCont(b[2]) /\ IsCont(b[3]) /\ IsCont(b[4])
                 /\ (b1 = 240 => b[2] >= 144)
                 /\ (b1 = 244 => b[2] <= 143)
              THEN <<(b1 - 240) * 262144 + (b[2] - 128) * 4096
                        + (b[3] - 128) * 64 + (b[4] - 128)>>
                       \o Utf8Decode(SubSeq(b, 5, n))
         ELSE Utf8Decode(Tail(b))      \* errors="ignore": the byte is dropped

\* ------------------------------------------------------------------------
\* The store: three tables
\*   article(id PK, title varchar [, title_en varchar])
\*   log(msg text)                         -- no primary key
\*   tag(gid, tid, name varchar, name_en text), PRIMARY KEY (gid, tid)
\* ------------------------------------------------------------------------
IntVal(n) == [k |-> "int", n |-> n]

c_id       == <<105, 100>>
c_gid      == <<103, 105, 100>>
c_tid      == <<116, 105, 100>>
c_title    == <<116, 105, 116, 108, 101>>
c_msg      == <<109, 115, 103>>
c_name     == <<110, 97, 109, 101>>

\* ORDER BY TABLE_NAME
TableOrder == <<"article", "log", "tag">>
Tables == {"article", "log", "tag"}

\* sample texts
NiHao   == <<20320, 22909>>                     \* two CJK ideographs
ShiJie  == <<19990, 30028>>                     \* two other CJK ideographs
UrlCJK  == <<104, 116, 116, 112, 58, 47, 47, 101, 120, 97, 109, 112, 108, 101,
             46, 99, 111, 109, 47, 20320, 22909>>  \* http://example.com/ + NiHao
NiHaoUtf8 == <<228, 189, 160, 229, 165, 189>>   \* NiHao as UTF-8 bytes
Hi      == <<72, 105>>                          \* a translation
Old     == <<79, 108, 100>>                     \* a companion value already present

\* r.get(k) of a DictCursor row
Get(r, k) == IF k \in DOMAIN r THEN r[k] ELSE None


c_title_en == EnName(c_title)
c_name_en  == EnName(c_name)

\* program constants
BATCH_SIZE == 2
MAX_ATTEMPTS == 5

VARIABLES
    DRY_RUN, WIDEN_EN_COLUMNS,              \* configuration of the process
    schema, db,                             \* the store: columns and rows
    TRANSL_CACHE,                           \* _TRANSL_CACHE
    run, pc,                                \* run number, position in main
    cols, targets, ti, pk_cache,            \* locals of main
    table, col, pk_cols, offset, total_updates, scanned,
    rows, ri, updates,                      \* locals of process_table_column
    text, attempt, en,                      \* translate_azure: argument, loop, result
    nposts, nfails, endk,                   \* observed: requests of the current call
    calls,                                  \* observed: the calls of the current page
    requested,                              \* observed: texts posted in this run
    answered,                               \* observed: parsed answers per text, this run
    nupd,                                   \* observed: UPDATEs executed in this run
    db0,                                    \* observed: the rows when this run started
    filled,                                 \* observed: cells written in any run
    added,                                  \* the count ensure_en_columns returned
    executed,                               \* observed: kinds of mutating statements
                                            \*   executed in this run
    schema0,                                \* observed: the columns when this run started
    uncommitted,                            \* observed: statements executed in the
                                            \*   open transaction of the connection
    fault                                   \* observed: the exception that ended the run

cfgvars  == <<DRY_RUN, WIDEN_EN_COLUMNS>>
mainvars == <<cols, targets, ti, pk_cache>>
procvars == <<table, col, pk_cols, offset, total_updates, scanned, rows, ri, updates>>
trvars   == <<text, attempt, en, nposts, nfails, endk>>
vars == <<DRY_RUN, WIDEN_EN_COLUMNS, schema, db, TRANSL_CACHE, run, pc,
          cols, targets, ti, pk_cache,
          table, col, pk_cols, offset, total_updates, scanned, rows, ri, updates,
          text, attempt, en, nposts, nfails, endk, calls, requested, answered,
          nupd, db0, filled, added, executed, schema0, uncommitted, fault>>
runobs  == <<added, schema0, fault>>
obsvars == <<requested, answered, nupd, db0, filled, added, executed, schema0,
             uncommitted, fault>>

\* information_schema.KEY_COLUMN_USAGE, CONSTRAINT_NAME='PRIMARY'
get_primary_keys(tbl) ==
    CASE tbl = "article" -> <<c_id>>
      [] tbl = "tag"     -> <<c_gid, c_tid>>
      [] OTHER           -> <<>>

\* ------------------------------------------------------------------------
\* Initial states: the store before the first run
\* ------------------------------------------------------------------------
\* (title, title_en) of a row of article when the companion column exists
ArticleKinds ==
    { <<Str(NiHao), None>>, <<Str(NiHao), Str(Old)>>, <<Str(NiHao), Str(<<>>)>>,
      <<Str(ShiJie), None>>, <<Str(UrlCJK), None>> }

\* title of a row of article when the companion column does not exist yet
ArticleTitles == { Str(NiHao), Str(ShiJie), Str(UrlCJK) }

ArticleSchema(withEn) ==
    <<[name |-> c_id, dtype |-> "int"], [name |-> c_title, dtype |-> "varchar"]>>
    \o (IF withEn THEN <<[name |-> c_title_en, dtype |-> "varchar"]>> ELSE <<>>)

LogSchema == <<[name |-> c_msg, dtype |-> "text"]>>

TagSchema ==
    <<[name |-> c_gid, dtype |-> "int"], [name |-> c_tid, dtype |-> "int"],
      [name |-> c_name, dtype |-> "varchar"], [name |-> c_name_en, dtype |-> "text"]>>

LogRows == << (c_msg :> Str(NiHao)) >>

TagRows ==
    << (c_gid :> IntVal(1)) @@ (c_tid :> IntVal(1)) @@ (c_name :> Bytes(NiHaoUtf8))
                            @@ (c_name_en :> None),
       (c_gid :> IntVal(1)) @@ (c_tid :> IntVal(2)) @@ (c_name :> Str(NiHao))
                            @@ (c_name_en :> Str(Old)),
       (c_gid :> IntVal(2)) @@ (c_tid :> IntVal(1)) @@ (c_name :> Str(UrlCJK))
                            @@ (c_name_en :> None) >>

NoCall == [end |-> "none", ret |-> None]

NoFault == [kind |-> "none", at |-> 0]

FreshProcess ==
    /\ TRANSL_CACHE = << >>
    /\ pc = "main"
    /\ cols = << >> /\ targets = << >> /\ ti = 0 /\ pk_cache = << >>
    /\ table = "" /\ col = << >> /\ pk_cols = << >>
    /\ offset = 0 /\ total_updates = 0 /\ scanned = 0
    /\ rows = << >> /\ ri = 0 /\ updates = << >>
    /\ text = None /\ attempt = 0 /\ en = None
    /\ nposts = 0 /\ nfails = 0 /\ endk = "none"
    /\ calls = << >> /\ requested = {} /\ answered = << >> /\ nupd = << >>
    /\ added = 0 /\ executed = {} /\ uncommitted = 0 /\ fault = NoFault

Init ==
    /\ DRY_RUN \in BOOLEAN
    /\ WIDEN_EN_COLUMNS \in BOOLEAN
    /\ run = 1
    /\ \E n \in 0..MaxRows, withEn \in BOOLEAN :
         /\ schema = [t \in Tables |->
                        CASE t = "article" -> ArticleSchema(withEn)
                          [] t = "log"     -> LogSchema
                          [] OTHER         -> TagSchema]
         /\ \E art \in (IF withEn
                        THEN {[i \in 1..n |->
                                 (c_id :> IntVal(i)) @@ (c_title :> k[i][1])
                                                     @@ (c_title_en :> k[i][2])] :
                              k \in [1..n -> ArticleKinds]}
                        ELSE {[i \in 1..n |->
                                 (c_id :> IntVal(i)) @@ (c_title :> k[i])] :
                              k \in [1..n -> ArticleTitles]}) :
              db = [t \in Tables |->
                      CASE t = "article" -> art
                        [] t = "log"     -> LogRows
                        [] OTHER         -> TagRows]
    /\ FreshProcess
    /\ db0 = db
    /\ schema0 = schema
    /\ filled = {}


\* ------------------------------------------------------------------------
\* Metadata / DDL (translate.py 151-228)
\* ------------------------------------------------------------------------
RECURSIVE TextColumnsFrom(_, _)
TextColumnsFrom(sch, i) ==
    IF i > Len(TableOrder) THEN << >>
    ELSE LET t  == TableOrder[i]
             cs == SelectSeq(sch[t], LAMBDA c : c.dtype \in TEXT_TYPES)
         IN  [j \in 1..Len(cs) |->
                [TABLE_NAME |-> t, COLUMN_NAME |-> cs[j].name, DATA_TYPE |-> cs[j].dtype]]
             \o TextColumnsFrom(sch, i + 1)

get_text_columns(sch) == TextColumnsFrom(sch, 1)

HasColumn(sch, t, name) == \E i \in 1..Len(sch[t]) : sch[t][i].name = name

\* ALTER TABLE t ADD COLUMN name TEXT ... NULL
AddColumn(st, t, name) ==
    [schema |-> [st.schema EXCEPT ![t] = Append(@, [name |-> name, dtype |-> "text"])],
     db     |-> [st.db EXCEPT ![t] = [i \in 1..Len(@) |-> @[i] @@ (name :> None)]],
     added  |-> st.added + 1,
     alters |-> st.alters + 1]

\* ensure_en_columns without the look-up of lines 175-180
RECURSIVE ensure_en_columns_NoLookup(_, _, _)
ensure_en_columns_NoLookup(st, cs, dry) ==
    IF cs = << >> THEN st
    ELSE LET t == Head(cs).TABLE_NAME
             c == Head(cs).COLUMN_NAME
         IN
         IF t \in SKIP_TABLES \/ ~should_translate_col(c)
         THEN ensure_en_columns_NoLookup(st, Tail(cs), dry)
         ELSE IF ONLY_TABLES # {} /\ t \notin ONLY_TABLES
         THEN ensure_en_columns_NoLookup(st, Tail(cs), dry)
         ELSE IF dry
         THEN ensure_en_columns_NoLookup([st EXCEPT !.added = @ + 1], Tail(cs), dry)
         ELSE ensure_en_columns_NoLookup(AddColumn(st, t, EnName(c)), Tail(cs), dry)

\* st = [schema, db, added, alters]; cs = the columns still to visit
RECURSIVE ensure_en_columns(_, _, _)
ensure_en_columns(st, cs, dry) ==
    IF cs = << >> THEN st
    ELSE LET t == Head(cs).TABLE_NAME
             c == Head(cs).COLUMN_NAME
         IN
         IF t \in SKIP_TABLES \/ ~should_translate_col(c)
         THEN ensure_en_columns(st, Tail(cs), dry)
         ELSE IF ONLY_TABLES # {} /\ t \notin ONLY_TABLES
         THEN ensure_en_columns(st, Tail(cs), dry)
         ELSE IF HasColumn(st.schema, t, EnName(c))
         THEN ensure_en_columns(st, Tail(cs), dry)
         ELSE IF dry
         THEN ensure_en_columns([st EXCEPT !.added = @ + 1], Tail(cs), dry)
         ELSE ensure_en_columns(AddColumn(st, t, EnName(c)), Tail(cs), dry)

\* NeedsWiden that leaves tinytext columns as they are
NeedsWiden_NoTinytext(c) ==
    EndsWith(Lower(c.name), EnSuffix) /\ c.dtype \in {"char", "varchar"}

\* NeedsWiden whatever the declared type
NeedsWiden_AnyType(c) ==
    EndsWith(Lower(c.name), EnSuffix)

\* COLUMN_NAME REGEXP '_en$' AND DATA_TYPE IN ('char','varchar','tinytext');
\* REGEXP on a column name of information_schema does not distinguish case
NeedsWiden(c) ==
    EndsWith(Lower(c.name), EnSuffix) /\ c.dtype \in {"char", "varchar", "tinytext"}

\* widen_existing_en_columns_to_text executing the ALTER in a dry run too
widen_existing_en_columns_to_text_NoDry(sch, dry) ==
    [t \in Tables |->
       [i \in 1..Len(sch[t]) |->
          IF /\ NeedsWiden(sch[t][i])
             /\ ~(ONLY_TABLES # {} /\ t \notin ONLY_TABLES)
          THEN [sch[t][i] EXCEPT !.dtype = "text"]
          ELSE sch[t][i]]]

\* the schema after ALTER TABLE ... MODIFY ... TEXT of every selected column
widen_existing_en_columns_to_text(sch, dry) ==
    [t \in Tables |->
       [i \in 1..Len(sch[t]) |->
          IF /\ NeedsWiden(sch[t][i])
             /\ ~(ONLY_TABLES # {} /\ t \notin ONLY_TABLES)
             /\ ~dry
          THEN [sch[t][i] EXCEPT !.dtype = "text"]
          ELSE sch[t][i]]]

\* ------------------------------------------------------------------------
\* main, steps 1-5 (translate.py 305-334)
\* ------------------------------------------------------------------------
GetTextColumns ==
    /\ pc = "main"
    /\ cols' = get_text_columns(schema)
    /\ pc' = "ensure"
    /\ UNCHANGED <<cfgvars, schema, db, TRANSL_CACHE, run, targets, ti, pk_cache,
                   procvars, trvars, calls, obsvars>>

EnsureEnColumns ==
    /\ pc = "ensure"
    /\ LET st == ensure_en_columns([schema |-> schema, db |-> db, added |-> 0,
                                    alters |-> 0], cols, DRY_RUN)
       IN  /\ schema' = st.schema
           /\ db' = st.db
           /\ added' = st.added
           /\ executed' = executed \cup (IF st.alters > 0 THEN {"add"} ELSE {})
    /\ pc' = "widen"
    /\ UNCHANGED <<cfgvars, TRANSL_CACHE, run, mainvars, procvars, trvars,
                   calls, requested, answered, nupd, db0, filled, schema0,
                   uncommitted, fault>>

\* step 3 (when WIDEN_EN_COLUMNS) and the commit of line 323
WidenEnColumns ==
    /\ pc = "widen"
    /\ schema' = IF WIDEN_EN_COLUMNS
                 THEN widen_existing_en_columns_to_text(schema, DRY_RUN)
                 ELSE schema
    /\ executed' = executed \cup (IF schema' # schema THEN {"modify"} ELSE {})
                             \cup (IF DRY_RUN THEN {} ELSE {"commit"})
    /\ uncommitted' = IF DRY_RUN THEN uncommitted ELSE 0
    /\ pc' = "targets"
    /\ UNCHANGED <<cfgvars, db, TRANSL_CACHE, run, mainvars, procvars, trvars,
                   calls, requested, answered, nupd, db0, filled, runobs>>

IsTarget(c) ==
    /\ c.TABLE_NAME \notin SKIP_TABLES
    /\ should_translate_col(c.COLUMN_NAME)
    /\ ~EndsWith(c.COLUMN_NAME, EnSuffix)
    /\ (ONLY_TABLES # {} => c.TABLE_NAME \in ONLY_TABLES)

BuildTargets ==
    /\ pc = "targets"
    /\ targets' = SelectSeq(cols, IsTarget)
    /\ ti' = 1
    /\ pk_cache' = << >>
    /\ pc' = "loop"
    /\ UNCHANGED <<cfgvars, schema, db, TRANSL_CACHE, run, cols, procvars, trvars,
                   calls, obsvars>>


\* ------------------------------------------------------------------------
\* main, the loop over the targets (translate.py 336-351)
\* ------------------------------------------------------------------------
ResetProc ==
    /\ table' = "" /\ col' = << >> /\ pk_cols' = << >>
    /\ offset' = 0 /\ total_updates' = 0 /\ scanned' = 0
    /\ rows' = << >> /\ ri' = 0 /\ updates' = << >>
    /\ calls' = << >>

CachedPk(t) == IF t \in DOMAIN pk_cache THEN pk_cache[t] ELSE get_primary_keys(t)

\* lines 339-345: a table without primary key is skipped
SkipNoPk ==
    /\ pc = "loop"
    /\ ti <= Len(targets)
    /\ LET t == targets[ti].TABLE_NAME IN
         /\ CachedPk(t) = << >>
         /\ pk_cache' = (t :> CachedPk(t)) @@ pk_cache
    /\ ti' = ti + 1
    /\ UNCHANGED <<cfgvars, schema, db, TRANSL_CACHE, run, pc, cols, targets,
                   procvars, trvars, calls, obsvars>>

\* StartTarget without the test of line 343
StartTarget_NoPkCheck ==
    /\ pc = "loop"
    /\ ti <= Len(targets)
    /\ LET t == targets[ti].TABLE_NAME IN
         /\ pk_cache' = (t :> CachedPk(t)) @@ pk_cache
         /\ table' = t
         /\ col' = targets[ti].COLUMN_NAME
         /\ pk_cols' = CachedPk(t)
    /\ offset' = 0 /\ total_updates' = 0 /\ scanned' = 0
    /\ pc' = "scan"
    /\ UNCHANGED <<cfgvars, schema, db, TRANSL_CACHE, run, cols, targets, ti,
                   rows, ri, updates, trvars, calls, obsvars>>

\* line 347: call of process_table_column, lines 237-239
StartTarget ==
    /\ pc = "loop"
    /\ ti <= Len(targets)
    /\ LET t == targets[ti].TABLE_NAME IN
         /\ CachedPk(t) # << >>
         /\ pk_cache' = (t :> CachedPk(t)) @@ pk_cache
         /\ table' = t
         /\ col' = targets[ti].COLUMN_NAME
         /\ pk_cols' = CachedPk(t)
    /\ offset' = 0 /\ total_updates' = 0 /\ scanned' = 0
    /\ pc' = "scan"
    /\ UNCHANGED <<cfgvars, schema, db, TRANSL_CACHE, run, cols, targets, ti,
                   rows, ri, updates, trvars, calls, obsvars>>

\* line 351: all targets done
Finish ==
    /\ pc = "loop"
    /\ ti > Len(targets)
    /\ pc' = "done"
    /\ UNCHANGED <<cfgvars, schema, db, TRANSL_CACHE, run, mainvars, procvars,
                   trvars, calls, obsvars>>

\* ------------------------------------------------------------------------
\* process_table_column (translate.py 232-291)
\* ------------------------------------------------------------------------
Min(a, b) == IF a < b THEN a ELSE b

\* SELECT * FROM table LIMIT BATCH_SIZE OFFSET offset
Page(d, t, off) == SubSeq(d[t], off + 1, Min(off + BATCH_SIZE, Len(d[t])))

\* lines 242-245, the scan that returns no row ends the target
ScanEmpty ==
    /\ pc = "scan"
    /\ Page(db, table, offset) = << >>
    /\ ResetProc
    /\ ti' = ti + 1
    /\ pc' = "loop"
    /\ UNCHANGED <<cfgvars, schema, db, TRANSL_CACHE, run, cols, targets, pk_cache,
                   trvars, obsvars>>

\* lines 242-247
ScanPage ==
    /\ pc = "scan"
    /\ Page(db, table, offset) # << >>
    /\ rows' = Page(db, table, offset)
    /\ updates' = << >>
    /\ calls' = << >>
    /\ ri' = 1
    /\ pc' = "row"
    /\ UNCHANGED <<cfgvars, schema, db, TRANSL_CACHE, run, mainvars,
                   table, col, pk_cols, offset, total_updates, scanned,
                   trvars, obsvars>>

\* lines 250-257: the value of the row, bytes decoded
RowValue(r, c) ==
    LET v == Get(r, c) IN
    IF v.k = "bytes" THEN Str(Utf8Decode(v.b)) ELSE v

\* RowSkipped without the test of line 265
RowSkipped_NoFillGate(r, c) ==
    LET v == RowValue(r, c) IN
    \/ ~IsStr(v)
    \/ looks_like_non_language_value(v)
    \/ ~contains_chinese(v)

\* lines 259-266: the row is passed over without a call of translate
RowSkipped(r, c) ==
    LET v == RowValue(r, c) IN
    \/ ~IsStr(v)
    \/ looks_like_non_language_value(v)
    \/ ~contains_chinese(v)
    \/ Truthy(Get(r, EnName(c)))

\* the `continue` of the row loop, or its end
NextRow ==
    IF ri < Len(rows)
    THEN ri' = ri + 1 /\ pc' = "row"
    ELSE ri' = ri /\ pc' = "writeback"

SkipRow ==
    /\ pc = "row"
    /\ RowSkipped(rows[ri], col)
    /\ scanned' = scanned + 1
    /\ calls' = Append(calls, NoCall)
    /\ NextRow
    /\ UNCHANGED <<cfgvars, schema, db, TRANSL_CACHE, run, mainvars,
                   table, col, pk_cols, offset, total_updates, rows, updates,
                   trvars, obsvars>>

\* CallTranslate without the look-up of lines 107-108
CallTranslate_NoCacheLookup ==
    /\ pc = "row"
    /\ ~RowSkipped(rows[ri], col)
    /\ scanned' = scanned + 1
    /\ LET v == RowValue(rows[ri], col) IN
         /\ text' = v
         /\ nposts' = 0 /\ nfails' = 0 /\ attempt' = 0
         /\ IF ~Truthy(v)
            THEN en' = v /\ endk' = "empty" /\ pc' = "result"
            ELSE en' = None /\ endk' = "none" /\ pc' = "post"
    /\ UNCHANGED <<cfgvars, schema, db, TRANSL_CACHE, run, mainvars,
                   table, col, pk_cols, offset, total_updates, rows, ri, updates,
                   calls, obsvars>>

\* line 268 and translate_azure lines 105-119: the call, answered at once
\* for an empty text or a cached one, else entering the request loop
CallTranslate ==
    /\ pc = "row"
    /\ ~RowSkipped(rows[ri], col)
    /\ scanned' = scanned + 1
    /\ LET v == RowValue(rows[ri], col) IN
         /\ text' = v
         /\ nposts' = 0 /\ nfails' = 0 /\ attempt' = 0
         /\ IF ~Truthy(v)
            THEN en' = v /\ endk' = "empty" /\ pc' = "result"
            ELSE IF v.s \in DOMAIN TRANSL_CACHE
            THEN en' = TRANSL_CACHE[v.s] /\ endk' = "cache" /\ pc' = "result"
            ELSE en' = None /\ endk' = "none" /\ pc' = "post"
    /\ UNCHANGED <<cfgvars, schema, db, TRANSL_CACHE, run, mainvars,
                   table, col, pk_cols, offset, total_updates, rows, ri, updates,
                   calls, obsvars>>


\* ------------------------------------------------------------------------
\* translate_azure, the request loop (translate.py 119-144)
\* ------------------------------------------------------------------------
OK_STATUS    == {200, 201}
RETRY_STATUS == {429, 500, 502, 503, 504}
OTHER_STATUS == {401, 403}

Malformed == [k |-> "malformed"]

\* what data[0]["translations"][0]["text"] can be for the text s
Translations(s) == { Str(Hi), Str(s), Str(<< >>), NonStr }

\* the outcomes of requests.post: an exception, or a response
Responses(s) ==
    { [kind |-> "exception", status |-> 0, body |-> Malformed] }
    \cup { [kind |-> "http", status |-> st, body |-> b] :
             st \in OK_STATUS, b \in Translations(s) \cup {Malformed} }
    \cup { [kind |-> "http", status |-> st, body |-> Malformed] :
             st \in RETRY_STATUS \cup OTHER_STATUS }

\* RetryOrGiveUp with a loop of one iteration less
RetryOrGiveUp_OneLess ==
    /\ attempt' = attempt + 1
    /\ nfails' = nfails + 1
    /\ TRANSL_CACHE' = TRANSL_CACHE
    /\ IF attempt + 1 < MAX_ATTEMPTS - 1
       THEN en' = en /\ endk' = endk /\ pc' = "post"
       ELSE en' = text /\ endk' = "exhausted" /\ pc' = "result"

\* lines 124-126 and 137-139: sleep, `continue`; the loop ends after
\* MAX_ATTEMPTS iterations with `return text` (line 144)
RetryOrGiveUp ==
    /\ attempt' = attempt + 1
    /\ nfails' = nfails + 1
    /\ TRANSL_CACHE' = TRANSL_CACHE
    /\ IF attempt + 1 < MAX_ATTEMPTS
       THEN en' = en /\ endk' = endk /\ pc' = "post"
       ELSE en' = text /\ endk' = "exhausted" /\ pc' = "result"

\* OnOk without the store of line 132
OnOk_NoStore(r) ==
    /\ attempt' = attempt
    /\ nfails' = nfails
    /\ TRANSL_CACHE' = TRANSL_CACHE
    /\ IF r.body = Malformed
       THEN en' = text /\ endk' = "badjson"
       ELSE en' = r.body /\ endk' = "ok"
    /\ pc' = "result"

\* lines 128-135
OnOk(r) ==
    /\ attempt' = attempt
    /\ nfails' = nfails
    /\ IF r.body = Malformed
       THEN /\ TRANSL_CACHE' = TRANSL_CACHE
            /\ en' = text /\ endk' = "badjson"
       ELSE /\ TRANSL_CACHE' = (text.s :> r.body) @@ TRANSL_CACHE
            /\ en' = r.body /\ endk' = "ok"
    /\ pc' = "result"

\* OnOtherStatus returning the body of the response as the translation
OnOtherStatus_ReturnsBody ==
    /\ attempt' = attempt
    /\ nfails' = nfails
    /\ TRANSL_CACHE' = TRANSL_CACHE
    /\ en' = Str(Hi) /\ endk' = "denied"
    /\ pc' = "result"

\* lines 141-142
OnOtherStatus ==
    /\ attempt' = attempt
    /\ nfails' = nfails
    /\ TRANSL_CACHE' = TRANSL_CACHE
    /\ en' = text /\ endk' = "denied"
    /\ pc' = "result"

\* a counter kept as a function with a growing domain
Count(n, key) == IF key \in DOMAIN n THEN n[key] ELSE 0

\* one iteration of the loop of lines 120-142
Post ==
    /\ pc = "post"
    /\ \E r \in Responses(text.s) :
         IF r.kind = "exception" THEN RetryOrGiveUp
         ELSE IF r.status \in OK_STATUS THEN OnOk(r)
         ELSE IF r.status \in RETRY_STATUS THEN RetryOrGiveUp
         ELSE OnOtherStatus
    /\ nposts' = nposts + 1
    /\ requested' = requested \cup {text.s}
    /\ answered' = IF endk' = "ok"
                   THEN (text.s :> Count(answered, text.s) + 1) @@ answered
                   ELSE answered
    /\ UNCHANGED <<cfgvars, schema, db, run, mainvars, procvars, text, calls,
                   nupd, db0, filled, runobs, executed, uncommitted>>

\* TranslationUsable without the comparison with the source
TranslationUsable_NoEchoTest(e, v) == IsStr(e)

\* lines 269-275: the result of translate for the row
TranslationUsable(e, v) == IsStr(e) /\ e # v

\* UpdateFor with the source value as the parameter of SET
UpdateFor_SourceValue(r, e) ==
    [table  |-> table,
     set    |-> EnName(col),
     where  |-> pk_cols,
     params |-> <<RowValue(r, col)>> \o [j \in 1..Len(pk_cols) |-> r[pk_cols[j]]]]

UpdateFor(r, e) ==
    [table  |-> table,
     set    |-> EnName(col),
     where  |-> pk_cols,
     params |-> <<e>> \o [j \in 1..Len(pk_cols) |-> r[pk_cols[j]]]]

Result ==
    /\ pc = "result"
    /\ updates' = IF TranslationUsable(en, text)
                  THEN Append(updates, UpdateFor(rows[ri], en))
                  ELSE updates
    /\ calls' = Append(calls, [end |-> endk, ret |-> en])
    /\ text' = None /\ attempt' = 0 /\ en' = None
    /\ nposts' = 0 /\ nfails' = 0 /\ endk' = "none"
    /\ NextRow
    /\ UNCHANGED <<cfgvars, schema, db, TRANSL_CACHE, run, mainvars,
                   table, col, pk_cols, offset, total_updates, scanned, rows,
                   obsvars>>

\* UPDATE table SET set = params[1] WHERE where[1] = params[2] AND ...
Matches(r, u) == \A j \in 1..Len(u.where) : r[u.where[j]] = u.params[j + 1]

ExecUpdate(d, u) ==
    [d EXCEPT ![u.table] =
        [i \in 1..Len(d[u.table]) |->
           IF Matches(d[u.table][i], u)
           THEN [d[u.table][i] EXCEPT ![u.set] = u.params[1]]
           ELSE d[u.table][i]]]

RECURSIVE ExecAll(_, _)
ExecAll(d, us) == IF us = << >> THEN d ELSE ExecAll(ExecUpdate(d, Head(us)), Tail(us))

\* nupd: the number of executed UPDATE statements that matched row i of a
\* table, per companion column, keyed <<table, column, i>>
RECURSIVE CountAll(_, _, _)
CountAll(n, d, us) ==
    IF us = << >> THEN n
    ELSE LET u    == Head(us)
             hit  == { i \in 1..Len(d[u.table]) : Matches(d[u.table][i], u) }
             keys == { <<u.table, u.set, i>> : i \in hit }
             n2   == [key \in DOMAIN n \cup keys |->
                        Count(n, key) + (IF key \in keys THEN 1 ELSE 0)]
         IN  CountAll(n2, d, Tail(us))

\* WriteBack without the commit of line 284
WriteBack_NoCommit ==
    /\ pc = "writeback"
    /\ IF updates # << >> /\ ~DRY_RUN
       THEN /\ db' = ExecAll(db, updates)
            /\ nupd' = CountAll(nupd, db, updates)
            /\ filled' = filled \cup DOMAIN nupd'
            /\ executed' = executed \cup {"update"}
            /\ uncommitted' = uncommitted + Len(updates)
       ELSE /\ db' = db /\ nupd' = nupd /\ filled' = filled
            /\ executed' = executed /\ uncommitted' = uncommitted
    /\ total_updates' = total_updates + Len(updates)
    /\ pc' = "pace"
    /\ UNCHANGED <<cfgvars, schema, TRANSL_CACHE, run, mainvars,
                   table, col, pk_cols, offset, scanned, rows, ri, updates,
                   trvars, calls, requested, answered, db0, runobs>>

\* WriteBack with the test of DRY_RUN the wrong way round
WriteBack_DryInverted ==
    /\ pc = "writeback"
    /\ IF updates # << >> /\ DRY_RUN
       THEN /\ db' = ExecAll(db, updates)
            /\ nupd' = CountAll(nupd, db, updates)
            /\ filled' = filled \cup DOMAIN nupd'
            /\ executed' = executed \cup {"update", "commit"}
            /\ uncommitted' = 0
       ELSE /\ db' = db /\ nupd' = nupd /\ filled' = filled
            /\ executed' = executed /\ uncommitted' = uncommitted
    /\ total_updates' = total_updates + Len(updates)
    /\ pc' = "pace"
    /\ UNCHANGED <<cfgvars, schema, TRANSL_CACHE, run, mainvars,
                   table, col, pk_cols, offset, scanned, rows, ri, updates,
                   trvars, calls, requested, answered, db0, runobs>>

\* lines 277-286
WriteBack ==
    /\ pc = "writeback"
    /\ IF updates # << >> /\ ~DRY_RUN
       THEN /\ db' = ExecAll(db, updates)
            /\ nupd' = CountAll(nupd, db, updates)
            /\ filled' = filled \cup DOMAIN nupd'
            /\ executed' = executed \cup {"update", "commit"}
            /\ uncommitted' = 0
       ELSE /\ db' = db /\ nupd' = nupd /\ filled' = filled
            /\ executed' = executed /\ uncommitted' = uncommitted
    /\ total_updates' = total_updates + Len(updates)
    /\ pc' = "pace"
    /\ UNCHANGED <<cfgvars, schema, TRANSL_CACHE, run, mainvars,
                   table, col, pk_cols, offset, scanned, rows, ri, updates,
                   trvars, calls, requested, answered, db0, runobs>>

\* Pace without the advance of the offset
Pace_NoAdvance ==
    /\ pc = "pace"
    /\ offset' = offset
    /\ rows' = << >> /\ ri' = 0 /\ updates' = << >> /\ calls' = << >>
    /\ pc' = "scan"
    /\ UNCHANGED <<cfgvars, schema, db, TRANSL_CACHE, run, mainvars,
                   table, col, pk_cols, total_updates, scanned,
                   trvars, obsvars>>

\* lines 288-289: the offset advances, the pacing delay is taken
Pace ==
    /\ pc = "pace"
    /\ offset' = offset + BATCH_SIZE
    /\ rows' = << >> /\ ri' = 0 /\ updates' = << >> /\ calls' = << >>
    /\ pc' = "scan"
    /\ UNCHANGED <<cfgvars, schema, db, TRANSL_CACHE, run, mainvars,
                   table, col, pk_cols, total_updates, scanned,
                   trvars, obsvars>>

\* the program is started again: a new process, the store as it was left
NewRun ==
    /\ pc = "done"
    /\ run < MaxRuns
    /\ run' = run + 1
    /\ TRANSL_CACHE' = << >>
    /\ pc' = "main"
    /\ cols' = << >> /\ targets' = << >> /\ ti' = 0 /\ pk_cache' = << >>
    /\ requested' = {} /\ answered' = << >> /\ nupd' = << >>
    /\ added' = 0 /\ executed' = {} /\ uncommitted' = 0
    /\ db0' = db
    /\ schema0' = schema
    /\ UNCHANGED <<cfgvars, schema, db, procvars, trvars, calls, filled, fault>>

Next ==
    \/ GetTextColumns
    \/ EnsureEnColumns
    \/ WidenEnColumns
    \/ BuildTargets
    \/ SkipNoPk
    \/ StartTarget
    \/ Finish
    \/ ScanEmpty
    \/ ScanPage
    \/ SkipRow
    \/ CallTranslate
    \/ Post
    \/ Result
    \/ WriteBack
    \/ Pace
    \/ NewRun

Spec == Init /\ [][Next]_vars

\* The program is sequential and none of its steps blocks: a request ends
\* by its timeout of 20 s (line 122), the sleeps are finite, and the store
\* answers or fails within the lock wait timeouts (lines 309-310). A step
\* that is possible is therefore taken.
\* The stores for termination: article with one row to fill, log,
\* and tag with its two pages.
InitLive ==
    /\ DRY_RUN \in BOOLEAN
    /\ WIDEN_EN_COLUMNS = TRUE
    /\ run = 1
    /\ schema = [t \in Tables |->
                   CASE t = "article" -> ArticleSchema(TRUE)
                     [] t = "log"     -> LogSchema
                     [] OTHER         -> TagSchema]
    /\ db = [t \in Tables |->
               CASE t = "article" -> << (c_id :> IntVal(1)) @@ (c_title :> Str(ShiJie))
                                                          @@ (c_title_en :> None) >>
                 [] t = "log"     -> LogRows
                 [] OTHER         -> TagRows]
    /\ FreshProcess
    /\ db0 = db
    /\ schema0 = schema
    /\ filled = {}

SpecLive == InitLive /\ [][Next]_vars /\ WF_vars(Next)

\* ------------------------------------------------------------------------
\* A second family of stores, for the classifier: one row of article whose
\* title ranges over texts of every shape the rules of lines 84-94 name
\* ------------------------------------------------------------------------
GateSamples ==
    {
      <<20320, 22909>>,  \* '\u4f60\u597d': sent
      <<19990, 30028>>,  \* '\u4e16\u754c': sent
      <<104, 116, 116, 112, 58, 47, 47, 101, 120, 97, 109, 112, 108, 101, 46, 99, 111, 109, 47, 20320, 22909>>,  \* 'http://example.com/\u4f60\u597d': not sent
      <<72, 84, 84, 80, 83, 58, 47, 47, 20320, 22909>>,  \* 'HTTPS://\u4f60\u597d': not sent
      <<102, 116, 112, 58, 47, 47, 20320, 22909>>,  \* 'ftp://\u4f60\u597d': not sent
      <<104, 116, 116, 112, 383, 58, 47, 47, 20320, 22909>>,  \* 'http\u017f://\u4f60\u597d': not sent
      <<104, 116, 116, 112, 58, 47, 20320, 22909>>,  \* 'http:/\u4f60\u597d': sent
      <<97, 64, 98, 46, 20320>>,  \* 'a@b.\u4f60': not sent
      <<20320, 64, 22909, 46, 99, 110>>,  \* '\u4f60@\u597d.cn': not sent
      <<97, 64, 98, 20320>>,  \* 'a@b\u4f60': sent
      <<123, 20320, 22909>>,  \* '{\u4f60\u597d': not sent
      <<91, 20320, 22909, 93>>,  \* '[\u4f60\u597d]': not sent
      <<60, 20320, 22909, 62>>,  \* '<\u4f60\u597d>': not sent
      <<102, 117, 110, 99, 116, 105, 111, 110, 20320, 22909>>,  \* 'function\u4f60\u597d': not sent
      <<99, 108, 97, 115, 115, 32, 20320, 22909>>,  \* 'class \u4f60\u597d': not sent
      <<105, 109, 112, 111, 114, 116, 32, 20320, 22909>>,  \* 'import \u4f60\u597d': not sent
      <<112, 97, 99, 107, 97, 103, 101, 32, 20320, 22909>>,  \* 'package \u4f60\u597d': not sent
      <<105, 109, 112, 111, 114, 116, 101, 114, 20320, 22909>>,  \* 'importer\u4f60\u597d': sent
      <<32, 20320, 32>>,  \* ' \u4f60 ': not sent
      <<12288, 20320, 22909, 12288>>,  \* '\u3000\u4f60\u597d\u3000': sent
      <<20320, 22909, 10>>,  \* '\u4f60\u597d\n': sent
      <<49, 50>>,  \* '12': not sent
      <<45, 49, 46, 53>>,  \* '-1.5': not sent
      <<65297, 65298>>,  \* '\uff11\uff12': not sent
      <<97, 98>>,  \* 'ab': not sent
      <<>>,  \* '': not sent
      <<20320, 49>>,  \* '\u4f601': sent
      <<49, 20320, 22909>>,  \* '1\u4f60\u597d': sent
      <<20320, 22909, 64>>,  \* '\u4f60\u597d@': sent
      <<20320, 32, 22909>>   \* '\u4f60 \u597d': sent
    }

\* a CJK ideograph, a digit, a dot, @, a letter, a space, an opening brace
GateAlphabet == {20320, 49, 46, 64, 97, 32, 123}

GateValues ==
    { Str(s) : s \in GateSamples }
    \cup { Str(<<a>>) : a \in GateAlphabet }
    \cup { Str(<<a, b>>) : a \in GateAlphabet, b \in GateAlphabet }
    \cup { None }

InitGate ==
    /\ DRY_RUN \in BOOLEAN
    /\ WIDEN_EN_COLUMNS = TRUE
    /\ run = 1
    /\ schema = [t \in Tables |->
                   CASE t = "article" -> ArticleSchema(TRUE)
                     [] t = "log"     -> LogSchema
                     [] OTHER         -> TagSchema]
    /\ \E v \in GateValues :
         db = [t \in Tables |->
                 CASE t = "article" -> << (c_id :> IntVal(1)) @@ (c_title :> v)
                                                            @@ (c_title_en :> None) >>
                   [] t = "log"     -> LogRows
                   [] OTHER         -> TagRows]
    /\ FreshProcess
    /\ db0 = db
    /\ schema0 = schema
    /\ filled = {}

SpecGate == InitGate /\ [][Next]_vars

\* ------------------------------------------------------------------------
\* A third family of stores, for the schema: article has a column with a
\* deny-listed name, a column whose name ends with the suffix in upper
\* case, and a companion of title that is absent or of any text type
\*   article(id PK, title varchar, Password varchar, memo_EN d2 [, title_en d1])
\* ------------------------------------------------------------------------
c_Password == <<80, 97, 115, 115, 119, 111, 114, 100>>
c_memo_EN  == <<109, 101, 109, 111, 95, 69, 78>>

SchemaArticle(d1, d2) ==
    <<[name |-> c_id, dtype |-> "int"], [name |-> c_title, dtype |-> "varchar"],
      [name |-> c_Password, dtype |-> "varchar"], [name |-> c_memo_EN, dtype |-> d2]>>
    \o (IF d1 = "absent" THEN << >> ELSE <<[name |-> c_title_en, dtype |-> d1]>>)

SchemaArticleRows(d1) ==
    << (c_id :> IntVal(1)) @@ (c_title :> Str(NiHao)) @@ (c_Password :> Str(ShiJie))
         @@ (c_memo_EN :> Str(ShiJie))
         @@ (IF d1 = "absent" THEN << >> ELSE (c_title_en :> None)) >>

InitSchema ==
    /\ DRY_RUN \in BOOLEAN
    /\ WIDEN_EN_COLUMNS \in BOOLEAN
    /\ run = 1
    /\ \E d1 \in TEXT_TYPES \cup {"absent"}, d2 \in {"varchar", "longtext"} :
         /\ schema = [t \in Tables |->
                        CASE t = "article" -> SchemaArticle(d1, d2)
                          [] t = "log"     -> LogSchema
                          [] OTHER         -> TagSchema]
         /\ db = [t \in Tables |->
                    CASE t = "article" -> SchemaArticleRows(d1)
                      [] t = "log"     -> LogRows
                      [] OTHER         -> TagRows]
    /\ FreshProcess
    /\ db0 = db
    /\ schema0 = schema
    /\ filled = {}

SpecSchema == InitSchema /\ [][Next]_vars

\* ------------------------------------------------------------------------
\* The store may fail: cur.execute raises on a page read or on an UPDATE.
\* Neither process_table_column nor main catches the exception; it leaves
\* main through `finally: conn.close()` (lines 352-353) and ends the process.
\* ------------------------------------------------------------------------
\* line 242 raises
ScanFails ==
    /\ pc = "scan"
    /\ fault' = [kind |-> "read", at |-> offset]
    /\ uncommitted' = 0
    /\ pc' = "aborted"
    /\ UNCHANGED <<cfgvars, schema, db, TRANSL_CACHE, run, mainvars, procvars,
                   trvars, calls, requested, answered, nupd, db0, filled, added,
                   executed, schema0>>

\* line 283 raises for the j-th UPDATE of the page: the statements before it
\* were executed and are not committed. A transactional table loses them when
\* the connection is closed, another keeps them.
WriteFails ==
    /\ pc = "writeback"
    /\ updates # << >> /\ ~DRY_RUN
    /\ \E j \in 1..Len(updates), transactional \in BOOLEAN :
         /\ fault' = [kind |-> "write", at |-> j]
         /\ db' = IF transactional THEN db
                  ELSE ExecAll(db, SubSeq(updates, 1, j - 1))
         /\ executed' = executed \cup (IF j > 1 THEN {"update"} ELSE {})
    /\ uncommitted' = 0
    /\ pc' = "aborted"
    /\ UNCHANGED <<cfgvars, schema, TRANSL_CACHE, run, mainvars, procvars,
                   trvars, calls, requested, answered, nupd, db0, filled, added,
                   schema0>>

NextFail ==
    \/ Next
    \/ ScanFails
    \/ WriteFails

\* article(id PK, title varchar, title_en varchar) with three rows to fill:
\* a page of two and a page of one
FailArticleRows ==
    << (c_id :> IntVal(1)) @@ (c_title :> Str(NiHao)) @@ (c_title_en :> None),
       (c_id :> IntVal(2)) @@ (c_title :> Str(ShiJie)) @@ (c_title_en :> None),
       (c_id :> IntVal(3)) @@ (c_title :> Str(NiHao)) @@ (c_title_en :> None) >>

InitFail ==
    /\ DRY_RUN \in BOOLEAN
    /\ WIDEN_EN_COLUMNS = TRUE
    /\ run = 1
    /\ schema = [t \in Tables |->
                   CASE t = "article" -> ArticleSchema(TRUE)
                     [] t = "log"     -> LogSchema
                     [] OTHER         -> TagSchema]
    /\ db = [t \in Tables |->
               CASE t = "article" -> FailArticleRows
                 [] t = "log"     -> LogRows
                 [] OTHER         -> TagRows]
    /\ FreshProcess
    /\ db0 = db
    /\ schema0 = schema
    /\ filled = {}

SpecFail == InitFail /\ [][NextFail]_vars

TypeOK == pc \in {"main", "ensure", "widen", "targets", "loop", "scan", "row",
                  "post", "result", "writeback", "pace", "done", "aborted"}


\* ------------------------------------------------------------------------
\* Properties
\* ------------------------------------------------------------------------
Range(f) == { f[i] : i \in DOMAIN f }

\* the cell <<table, column, i>> of a store
Cell(d, key) == Get(d[key[1]][key[3]], key[2])

\* a value the classifier lets through, spelled out
Translatable(v) ==
    /\ IsStr(v)
    /\ ~looks_like_non_language_value(v)
    /\ contains_chinese(v)

\* C1: fill-only. No pending UPDATE statement matches a scanned row whose
\* companion held a non-empty value when its page was scanned, and every
\* cell that an UPDATE of this run has reached was empty when the run began:
\* a non-empty companion value is never overwritten.
C1_FillOnly ==
    /\ \A k \in 1..Len(updates) : \A i \in 1..Len(rows) :
         Matches(rows[i], updates[k]) => ~Truthy(Get(rows[i], updates[k].set))
    /\ \A key \in DOMAIN nupd : ~Truthy(Cell(db0, key))

\* a page with a filled row and an updated row has been written back
C1_Witness ==
    /\ pc = "pace" /\ ~DRY_RUN /\ updates # << >>
    /\ \E i \in 1..Len(rows) :
         /\ Truthy(Get(rows[i], EnName(col)))
         /\ db[table][offset + i] = rows[i]

\* C2 as stated: the second run executes no UPDATE statement, whatever the
\* translator answers.
C2_Original == run = 2 => nupd = << >>

\* the cells of the targets that the run found translatable and empty
PendingAtStart ==
    { key \in { <<tg.TABLE_NAME, EnName(tg.COLUMN_NAME), i>> :
                  tg \in Range(targets), i \in 1..MaxRows + 3 } :
        /\ get_primary_keys(key[1]) # << >>
        /\ key[3] <= Len(db0[key[1]])
        /\ \E tg \in Range(targets) :
             /\ tg.TABLE_NAME = key[1] /\ EnName(tg.COLUMN_NAME) = key[2]
             /\ Translatable(RowValue(db0[key[1]][key[3]], tg.COLUMN_NAME))
        /\ ~Truthy(Cell(db0, key)) }

\* C2 (amended): the second run executes UPDATE statements only for cells
\* of translatable rows that the first run left empty; when the first run
\* left none, the second run executes no UPDATE statement.
C2_SecondRunFillsLeftoversOnly ==
    run = 2 => DOMAIN nupd \subseteq PendingAtStart

\* a second run that found nothing to fill after a first run that filled
C2_Witness ==
    /\ run = 2 /\ pc = "done" /\ ~DRY_RUN
    /\ filled # {} /\ PendingAtStart = {} /\ nupd = << >>

\* C3 as stated: no request is made for a text already requested in the run.
C3_Original == pc = "post" => text.s \notin requested

\* C3 (amended): in one run at most one request per source string returns a
\* parsed translation, and no request is made for a string after that;
\* requests that fail are repeated.
C3_AtMostOneAnswerPerText ==
    /\ \A s \in DOMAIN answered : answered[s] <= 1
    /\ pc = "post" => Count(answered, text.s) = 0

\* a repeated text is served from the cache after its one answered request
C3_Witness ==
    /\ pc = "result" /\ endk = "cache"
    /\ Count(answered, text.s) = 1

\* C4: a table without primary key is never handed to process_table_column:
\* no UPDATE is queued or executed for it and its rows stay as they were.
C4_NoPrimaryKeyNoWrite ==
    \A t \in Tables :
        get_primary_keys(t) = << >> =>
            /\ table # t
            /\ \A k \in 1..Len(updates) : updates[k].table # t
            /\ \A key \in DOMAIN nupd : key[1] # t
            /\ \A i \in 1..Len(db[t]) : \A c \in DOMAIN db0[t][i] :
                 db[t][i][c] = db0[t][i][c]

\* the run is over, the table without key was met and has translatable text
C4_Witness ==
    /\ pc = "done" /\ ~DRY_RUN /\ nupd # << >>
    /\ "log" \in DOMAIN pk_cache /\ pk_cache["log"] = << >>
    /\ HasColumn(schema, "log", EnName(c_msg))
    /\ Translatable(db["log"][1][c_msg])
    /\ db["log"][1][EnName(c_msg)] = None


\* the cell of the companion of row i of the current page
PageKey(i) == <<table, EnName(col), offset + i>>

\* translate was called for row i of the page and returned a text other
\* than the source value
ReturnedOther(i) ==
    /\ calls[i].end # "none"
    /\ IsStr(calls[i].ret)
    /\ calls[i].ret # RowValue(rows[i], col)

C6_RetryExhaustion ==
    /\ (pc = "result" /\ nposts > 0 /\ nfails = nposts) =>
          nposts = MAX_ATTEMPTS /\ endk = "exhausted" /\ en = text
    /\ pc = "post" => nposts < MAX_ATTEMPTS /\ nfails = nposts
    /\ pc = "pace" =>
          /\ Len(calls) = Len(rows)
          /\ \A i \in 1..Len(calls) :
                calls[i].end = "exhausted" =>
                    /\ Count(nupd, PageKey(i)) = 0
                    /\ \A k \in 1..Len(updates) : ~Matches(rows[i], updates[k])
                    /\ Cell(db, PageKey(i)) = Get(rows[i], EnName(col))

\* a page is finished in which the call for the first row was exhausted
\* and a later row was processed
C6_Witness ==
    /\ pc = "pace" /\ Len(calls) > 1
    /\ calls[1].end = "exhausted"
    /\ ~Truthy(Cell(db, PageKey(1)))

\* C7: a response with another status than 200, 201, 429, 500, 502, 503,
\* 504 ends the call at once; the row gets no UPDATE and keeps its
\* companion, the rest of the page is processed, and every page of the
\* target is scanned.
C7_PermanentFailure ==
    /\ (pc = "result" /\ endk = "denied") => nposts = nfails + 1
    /\ pc = "pace" =>
          /\ Len(calls) = Len(rows)
          /\ \A i \in 1..Len(calls) :
                calls[i].end = "denied" =>
                    /\ Count(nupd, PageKey(i)) = 0
                    /\ \A k \in 1..Len(updates) : ~Matches(rows[i], updates[k])
                    /\ Cell(db, PageKey(i)) = Get(rows[i], EnName(col))
    /\ pc = "scan" => scanned = Min(offset, Len(db[table]))

\* the call for the first row of a first page was denied, the page is
\* finished and a later target or page follows
C7_Witness ==
    /\ pc = "pace" /\ Len(calls) > 1 /\ offset = 0
    /\ calls[1].end = "denied"
    /\ ~Truthy(Cell(db, PageKey(1)))
    /\ Len(db[table]) > BATCH_SIZE

\* C8: a row for which translate returned its source value is not updated,
\* and every value queued or written for a companion differs from the
\* source value of the row it goes to.
C8_EchoSkipped ==
    /\ \A k \in 1..Len(updates) : \A i \in 1..Len(rows) :
          Matches(rows[i], updates[k]) =>
              updates[k].params[1] # RowValue(rows[i], col)
    /\ pc = "pace" =>
          \A i \in 1..Len(calls) :
              (calls[i].end # "none" /\ calls[i].ret = RowValue(rows[i], col)) =>
                  /\ Count(nupd, PageKey(i)) = 0
                  /\ Cell(db, PageKey(i)) = Get(rows[i], EnName(col))
    /\ (pc = "pace" /\ ~DRY_RUN) =>
          \A i \in 1..Len(calls) :
              Count(nupd, PageKey(i)) > 0 =>
                  Cell(db, PageKey(i)) # RowValue(rows[i], col)

\* the translator answered the source text itself
C8_Witness ==
    /\ pc = "pace"
    /\ \E i \in 1..Len(calls) :
         /\ calls[i].end = "ok"
         /\ calls[i].ret = RowValue(rows[i], col)
         /\ ~Truthy(Cell(db, PageKey(i)))


\* C9 as stated: after the write-back of a page the companion of every row
\* for which translate returned another text t equals t, and a cell the
\* engine has written keeps its value in every later step and run.
C9_Original ==
    [][ /\ pc = "writeback" =>
             \A i \in 1..Len(calls) :
                 ReturnedOther(i) => Cell(db', PageKey(i)) = calls[i].ret
        /\ \A key \in filled : Cell(db', key) = Cell(db, key) ]_vars

\* C9 (amended): with the dry-run flag off, after the write-back of a page
\* the companion of every row for which translate returned another text t
\* equals t; a cell the engine has written with a non-empty text keeps it
\* in every later step and run.
C9_FillOnSuccess ==
    [][ /\ (pc = "writeback" /\ ~DRY_RUN) =>
             \A i \in 1..Len(calls) :
                 ReturnedOther(i) => Cell(db', PageKey(i)) = calls[i].ret
        /\ \A key \in filled :
             Truthy(Cell(db, key)) => Cell(db', key) = Cell(db, key) ]_vars

\* a cell filled in the first run is found unchanged at the end of the second
C9_Witness ==
    /\ run = 2 /\ pc = "done" /\ ~DRY_RUN
    /\ \E key \in filled :
         /\ Cell(db0, key) = Str(Hi)
         /\ Cell(db, key) = Str(Hi)
         /\ key \notin DOMAIN nupd

\* C10: whenever translate is running or has just returned, its argument
\* is the value of the current row, a string longer than one character
\* after trimming, without URL, e-mail or numeric shape, without a
\* structural prefix, and with a CJK character; the URL with CJK characters
\* is never the argument.
C10_ValueGate ==
    pc \in {"post", "result"} =>
        /\ text = RowValue(rows[ri], col)
        /\ IsStr(text)
        /\ LET t == Strip(text.s) IN
             /\ Len(t) > 1
             /\ ~URL_RE(t) /\ ~EMAIL_RE(t) /\ ~IS_NUMERIC_RE(t)
             /\ \A p \in StructuralPrefixes : ~StartsWith(t, p)
        /\ \E i \in 1..Len(text.s) : CN_RE(text.s[i])
        /\ text # Str(UrlCJK)

\* the row holding the URL with CJK characters was scanned and passed over
C10_Witness ==
    /\ pc = "pace" /\ table = "article"
    /\ Len(rows) = 1 /\ Len(calls) = 1
    /\ Get(rows[1], c_title) = Str(UrlCJK)
    /\ calls[1].end = "none"
    /\ TRANSL_CACHE = << >> /\ requested = {}


\* the names the column gate is to refuse
DenyListed(name) == \E k \in SKIP_COL_KEYWORDS : Contains(Lower(name), k)
HasEnSuffix(name) == EndsWith(Lower(name), EnSuffix)

Refused(name) == DenyListed(name) \/ HasEnSuffix(name)

\* C11: a column whose name, in lower case, contains a deny-listed
\* substring or ends with _en is refused by should_translate_col when the
\* columns are visited; no companion column is added for it in the run; it
\* is no target; and it is never the column whose values are handed to
\* translate.
C11_ColumnGate ==
    /\ pc = "ensure" =>
         \A k \in 1..Len(cols) :
             Refused(cols[k].COLUMN_NAME) => ~should_translate_col(cols[k].COLUMN_NAME)
    /\ \A t \in Tables : \A i \in 1..Len(schema[t]) :
         LET name == schema[t][i].name IN
         (HasColumn(schema, t, EnName(name)) /\ ~HasColumn(schema0, t, EnName(name)))
             => ~Refused(name)
    /\ \A k \in 1..Len(targets) : ~Refused(targets[k].COLUMN_NAME)
    /\ pc \in {"post", "result"} => ~Refused(col)

\* a run that filled the companion of title is over; the deny-listed column
\* and the column with the suffix in upper case hold CJK text
C11_Witness ==
    /\ pc = "done" /\ ~DRY_RUN
    /\ HasColumn(schema, "article", c_Password)
    /\ HasColumn(schema, "article", c_memo_EN)
    /\ Translatable(db["article"][1][c_Password])
    /\ Translatable(db["article"][1][c_memo_EN])
    /\ Get(db["article"][1], c_title_en) = Str(Hi)


\* the declared type of a column
ColType(sch, t, name) ==
    LET hit == { i \in 1..Len(sch[t]) : sch[t][i].name = name } IN
    IF hit = {} THEN "absent" ELSE sch[t][CHOOSE i \in hit : TRUE].dtype

WidthLimited == {"char", "varchar", "tinytext"}

\* C12 as stated: in every run no UPDATE of a companion column is executed
\* while the column is declared char, varchar or tinytext, and at every
\* write-back the companion column of the target is no longer of such a type.
C12_Original ==
    [][ /\ (pc = "writeback" /\ nupd' # nupd) =>
             ColType(schema, table, EnName(col)) \notin WidthLimited
        /\ pc = "writeback" =>
             ColType(schema, table, EnName(col)) \notin WidthLimited ]_vars

\* C12 (amended): when the widening toggle is on, no UPDATE of a companion
\* column is executed while the column is declared char, varchar or
\* tinytext; when moreover the dry-run flag is off, at every write-back no
\* column whose name ends with _en is of such a type any more.
C12_WidenBeforeWrite ==
    [][ /\ (WIDEN_EN_COLUMNS /\ pc = "writeback" /\ nupd' # nupd) =>
             ColType(schema, table, EnName(col)) \notin WidthLimited
        /\ (WIDEN_EN_COLUMNS /\ ~DRY_RUN /\ pc = "writeback") =>
             \A t \in Tables : \A i \in 1..Len(schema[t]) :
                 HasEnSuffix(schema[t][i].name) =>
                     schema[t][i].dtype \notin WidthLimited ]_vars

\* an UPDATE was executed on a companion that was width-limited when the
\* run began
C12_Witness ==
    /\ pc = "pace" /\ WIDEN_EN_COLUMNS /\ ~DRY_RUN
    /\ table = "article"
    /\ ColType(schema0, "article", c_title_en) = "tinytext"
    /\ ColType(schema, "article", c_title_en) = "text"
    /\ Count(nupd, <<"article", c_title_en, 1>>) = 1

\* the capacity of the text types, in increasing order
Rank(d) ==
    CASE d = "char"       -> 1
      [] d = "tinytext"   -> 1
      [] d = "varchar"    -> 2
      [] d = "text"       -> 3
      [] d = "mediumtext" -> 4
      [] d = "longtext"   -> 5
      [] OTHER            -> 0

\* C13: no step drops or renames a column; a step that changes the declared
\* type of a column changes a column whose name ends with _en (in the
\* case-insensitive comparison of the store), and to a type of no smaller
\* capacity.
C13_SchemaSafety ==
    [][ \A t \in Tables :
          /\ Len(schema'[t]) >= Len(schema[t])
          /\ \A i \in 1..Len(schema[t]) :
               /\ schema'[t][i].name = schema[t][i].name
               /\ schema'[t][i].dtype # schema[t][i].dtype =>
                    /\ HasEnSuffix(schema[t][i].name)
                    /\ Rank(schema'[t][i].dtype) >= Rank(schema[t][i].dtype) ]_vars

\* two runs are over: a width-limited companion was widened, a longtext
\* column with the suffix and the source columns kept their types
C13_Witness ==
    /\ run = 2 /\ pc = "done"
    /\ ColType(schema, "article", c_title_en) = "text"
    /\ ColType(schema, "article", c_memo_EN) = "longtext"
    /\ ColType(schema, "article", c_title) = "varchar"
    /\ ColType(schema, "article", c_Password) = "varchar"
    /\ HasColumn(schema, "log", EnName(c_msg))


\* the eligible text columns of a schema that have no companion, as
\* <<table, position>>
MissingCompanions(sch) ==
    { p \in UNION { { <<t, i>> : i \in 1..Len(sch[t]) } : t \in Tables } :
        LET c == sch[p[1]][p[2]] IN
        /\ c.dtype \in TEXT_TYPES
        /\ should_translate_col(c.name)
        /\ ~HasColumn(sch, p[1], EnName(c.name)) }

\* a step adds a column only under a name no column of the table has
AddsOnlyAbsent ==
    \A t \in Tables : \A i \in (Len(schema[t]) + 1)..Len(schema'[t]) :
        /\ ~HasColumn(schema, t, schema'[t][i].name)
        /\ \A j \in 1..(i - 1) : schema'[t][j].name # schema'[t][i].name

\* C14 as stated: a column is added only under a name no column has, and
\* in a second run ensure_en_columns executes no ALTER TABLE ADD COLUMN and
\* returns zero.
C14_Original ==
    [][ /\ AddsOnlyAbsent
        /\ (run >= 2 /\ pc = "widen") => added = 0 /\ "add" \notin executed ]_vars

\* C14 (amended): a column is added only under a name no column has; the
\* count ensure_en_columns returns is the number of eligible columns
\* without companion when it was called; with the dry-run flag off a
\* second run executes no ALTER TABLE ADD COLUMN, returns zero and leaves
\* the schema as it found it; with the flag on no ALTER is executed in
\* any run.
C14_IdempotentEnsure ==
    [][ /\ AddsOnlyAbsent
        /\ pc = "widen" =>
             /\ added = Cardinality(MissingCompanions(schema0))
             /\ DRY_RUN => schema = schema0 /\ "add" \notin executed
             /\ (~DRY_RUN /\ run >= 2) =>
                  added = 0 /\ "add" \notin executed /\ schema = schema0 ]_vars

\* ensure_en_columns has returned in a second run, after a first run that
\* added the companion of title
C14_Witness ==
    /\ run = 2 /\ pc = "widen" /\ ~DRY_RUN /\ added = 0
    /\ HasColumn(schema, "article", c_title_en)
    /\ db["article"][1][c_title_en] = Str(Hi)
    /\ ColType(schema, "article", c_title_en) = "text"
    /\ ~WIDEN_EN_COLUMNS


\* C15: in a run with the dry-run flag set no ALTER TABLE, no UPDATE and no
\* commit is executed, and at every moment of the run the schema and the
\* rows of the store are those the run started with.
C15_DryRun ==
    DRY_RUN =>
        /\ executed = {}
        /\ nupd = << >>
        /\ uncommitted = 0
        /\ schema = schema0
        /\ db = db0

\* a dry run that would have added a column, widened one and updated a row
C15_Witness ==
    /\ DRY_RUN /\ WIDEN_EN_COLUMNS /\ pc = "pace"
    /\ added > 0
    /\ ColType(schema, "article", c_title_en) \in WidthLimited
    /\ table = "article" /\ updates # << >> /\ total_updates = 1


\* C16 as stated: when the page read of a target fails, the target is left
\* and the driver goes on with the next target of the run.
C16_Original ==
    [][ (fault.kind = "none" /\ fault'.kind = "read") =>
            /\ pc' = "loop"
            /\ ti' = ti + 1 ]_vars

\* C17 as stated: when the UPDATE of one row of a page fails, every other
\* UPDATE of the page is applied and committed and the run goes on with the
\* pacing delay and the next page.
C17_Original ==
    [][ (fault.kind = "none" /\ fault'.kind = "write") =>
            /\ pc' = "pace"
            /\ \A k \in 1..Len(updates) :
                 k # fault'.at =>
                     \A i \in 1..Len(db[table]) :
                         Matches(db[table][i], updates[k]) =>
                             db'[table][i][updates[k].set] = updates[k].params[1] ]_vars


\* C18: within a target the steps follow one another as scan, the rows of
\* the page, write-back, pacing delay, scan at the next offset; the rows of
\* the store change only in a write-back, when every row of the page has
\* been processed; what a write-back executes is committed in the same
\* step, in a transaction that holds nothing else, so that nothing is
\* uncommitted when a scan is issued; and every page that returned rows is
\* followed by the pacing delay, with or without updates.
C18_PageProtocol ==
    [][ /\ pc = "scan" => pc' \in {"row", "loop"}
        /\ pc' = "row" => pc \in {"scan", "row", "result"}
        /\ pc \in {"row", "post", "result"} =>
             pc' \in {"row", "post", "result", "writeback"}
        /\ pc' = "writeback" => ri = Len(rows) /\ Len(calls') = Len(rows)
        /\ pc = "writeback" =>
             /\ pc' = "pace"
             /\ uncommitted = 0
             /\ rows # << >> /\ Len(calls) = Len(rows)
             /\ db' # db => "commit" \in executed'
        /\ pc = "pace" =>
             pc' = "scan" /\ offset' = offset + BATCH_SIZE /\ table' = table
        /\ pc' = "scan" =>
             /\ pc \in {"loop", "pace"}
             /\ pc = "loop" => offset' = 0
             /\ uncommitted' = 0
        /\ (db' # db /\ pc # "ensure") => pc = "writeback" ]_vars

\* the second page of a target is about to be scanned, after a first page
\* whose update was written and one target whose page gave no update
C18_Witness ==
    /\ pc = "scan" /\ table = "tag" /\ offset = BATCH_SIZE
    /\ ~DRY_RUN
    /\ Count(nupd, <<"tag", c_name_en, 1>>) = 1
    /\ Len(db["article"]) = 1
    /\ Count(nupd, <<"article", c_title_en, 1>>) = 0


\* C19: no call of translate makes more than MAX_ATTEMPTS requests; a
\* target never scans more rows than its table has; a target is left only
\* by a scan that returns no row, when all rows of its table have been
\* scanned; and every run reaches its end, after the last target.
C19_Termination ==
    /\ [](nposts <= MAX_ATTEMPTS /\ (pc = "post" => nposts < MAX_ATTEMPTS))
    /\ [](table # "" => scanned <= Len(db[table]))
    /\ [](pc = "done" => ti = Len(targets) + 1)
    /\ [][(table # "" /\ ti' # ti) =>
              /\ pc = "scan" /\ pc' = "loop" /\ ti' = ti + 1
              /\ Page(db, table, offset) = << >>
              /\ scanned = Len(db[table]) ]_vars
    /\ <>(run = MaxRuns /\ pc = "done")

\* the last target of a run, a table of two pages, has been left by the
\* scan that returned no row, after a call that made MAX_ATTEMPTS requests
C19_Witness ==
    /\ pc = "loop" /\ ti = Len(targets) + 1 /\ Len(targets) = Len(TableOrder)
    /\ targets[Len(targets)].TABLE_NAME = "tag"
    /\ Len(db["tag"]) > BATCH_SIZE
    /\ NiHao \in requested /\ NiHao \notin DOMAIN TRANSL_CACHE


\* C20: every request that returned a parsed translation has its text in
\* the cache; an entry of the cache keeps its value to the end of the run;
\* a call of translate for a cached text returns the entry and makes no
\* request, and no request is ever made for a cached text; so in a
\* write-back every row whose call was answered by the service or by the
\* cache is written with the entry of its source text.
C20_CacheAfterSuccess ==
    [][ /\ \A s \in DOMAIN answered : s \in DOMAIN TRANSL_CACHE
        /\ run' = run =>
             \A s \in DOMAIN TRANSL_CACHE :
                 s \in DOMAIN TRANSL_CACHE' /\ TRANSL_CACHE'[s] = TRANSL_CACHE[s]
        /\ pc = "post" => text.s \notin DOMAIN TRANSL_CACHE
        /\ (pc = "row" /\ pc' \in {"post", "result"}
                       /\ text'.s \in DOMAIN TRANSL_CACHE) =>
             /\ pc' = "result" /\ endk' = "cache"
             /\ en' = TRANSL_CACHE[text'.s]
             /\ nposts' = 0 /\ requested' = requested
        /\ pc = "writeback" =>
             \A i \in 1..Len(calls) :
                 calls[i].end \in {"ok", "cache"} =>
                     /\ calls[i].ret = TRANSL_CACHE[RowValue(rows[i], col).s]
                     /\ Count(nupd', PageKey(i)) > Count(nupd, PageKey(i)) =>
                          Cell(db', PageKey(i)) = TRANSL_CACHE[RowValue(rows[i], col).s]
      ]_vars

\* a row of tag was filled from the cache with the translation that the
\* request for a row of article had returned
C20_Witness ==
    /\ pc = "pace" /\ table = "tag" /\ offset = 0 /\ ~DRY_RUN
    /\ calls[1].end = "cache"
    /\ Count(answered, NiHao) = 1
    /\ db["article"][1][c_title] = Str(NiHao)
    /\ Get(db["article"][1], c_title_en) = Str(Hi)
    /\ Cell(db, <<"tag", c_name_en, 1>>) = Str(Hi)
    /\ Count(nupd, <<"tag", c_name_en, 1>>) = 1

====
